---- MODULE Spec2Model ----
(***************************************************************************)
(* HealthGuard village mapping: report ingestion (App.handleReportSubmit,  *)
(* geminiService.analyzeVillageHealth), comment addition                   *)
(* (App.handleAddComment) and outbreak cluster detection                   *)
(* (App.runClusterAnalysis, geminiService.analyzeClusters).                *)
(*                                                                         *)
(* Conventions of the model                                                *)
(*  - A JavaScript string that the code splits or parses is a sequence of  *)
(*    atoms: the atom "," is a comma, every other atom is a comma-free     *)
(*    piece of text.  Strings that are only stored or compared are TLA+    *)
(*    strings.                                                             *)
(*  - A latitude or longitude is an integer number of 1e-4 degrees         *)
(*    (16.2556 is 162556).                                                 *)
(*  - An optional value (lastAnalysis?, lastAshaWorker?, a NaN parse) is a *)
(*    sequence of length 0 or 1.                                           *)
(*  - Timestamps (lastReported, Comment.timestamp, the Date.now() part of  *)
(*    a cluster id) are left out: no modelled branch reads them.           *)
(***************************************************************************)
EXTENDS Integers, Sequences, FiniteSets, TLC

\* ------------------------------------------------------------------ bounds
\* Reports submitted in one run of the application.
MaxReports == 2
\* Comments added in one run of the application.
MaxComments == 1
\* Detection passes that may be waiting for the advisory oracle at once.
MaxPasses == 2
\* Villages created by reports in a saved snapshot.
MaxNewVillages == 2
\* Villages created by reports in a snapshot saved by an older version.
MaxOldNewVillages == 1

\* ------------------------------------------------------- enum HealthStatus
GREEN == "Green"
YELLOW == "Yellow"
RED == "Red"
HealthStatus == {GREEN, YELLOW, RED}

\* ------------------------------------------------------- sequence helpers
Range(s) == {s[i] : i \in DOMAIN s}

\* Array.from(new Set(s)): first occurrences, in insertion order.
RECURSIVE Dedup(_)
Dedup(s) ==
  IF s = <<>> THEN <<>>
  ELSE LET init == Dedup(SubSeq(s, 1, Len(s) - 1))
           last == s[Len(s)]
       IN  IF last \in Range(init) THEN init ELSE Append(init, last)

\* String.prototype.includes(',') on an atom sequence.
IncludesComma(str) == \E i \in DOMAIN str : str[i] = ","

\* String.prototype.split(','): the atom sequences between the commas.
RECURSIVE SplitComma(_)
SplitComma(str) ==
  IF ~IncludesComma(str) THEN <<str>>
  ELSE LET k == CHOOSE i \in DOMAIN str :
                  str[i] = "," /\ \A j \in 1..(i - 1) : str[j] # ","
       IN  <<SubSeq(str, 1, k - 1)>> \o SplitComma(SubSeq(str, k + 1, Len(str)))

\* parseFloat(s.trim()) on one token of workerLocation: <<n>> for a number
\* (in 1e-4 degrees), <<>> for NaN.  An empty token and a token that does not
\* begin with a number parse to NaN.
ParseFloatTrim(token) ==
  IF Len(token) # 1 THEN <<>>
  ELSE CASE token[1] = "18.65"    -> <<186500>>
         [] token[1] = "18.7333"  -> <<187333>>
         [] token[1] = " 83.3667" -> <<833667>>
         [] token[1] = "18.35"    -> <<183500>>
         [] token[1] = " 83.5667" -> <<835667>>
         [] OTHER                 -> <<>>

\* ---------------------------------------------------------------- GeoMath
\* The coordinates that can occur: the five seed villages, the default
\* centre of handleReportSubmit and the three locations a worker can report.
Points ==
  << [lat |-> 162556, lng |-> 811667],
     [lat |-> 185667, lng |-> 833667],
     [lat |-> 183000, lng |-> 835667],
     [lat |-> 185333, lng |-> 832167],
     [lat |-> 182833, lng |-> 833333],
     [lat |-> 205937, lng |-> 789629],
     [lat |-> 186500, lng |-> 833667],
     [lat |-> 187333, lng |-> 833667],
     [lat |-> 183500, lng |-> 835667] >>

\* getDistance's value on each pair of Points, in metres rounded up: the
\* haversine formula of the source with R = 6371e3 evaluated in double
\* precision.  Rounding up keeps every comparison d <= n with n a whole
\* number of metres exact.
DistanceTable ==
  << <<0, 347153, 341474, 333847, 322109, 535446, 354029, 361010, 345174>>,
     <<347153, 0, 36395, 16243, 31710, 513436, 9263, 18526, 32026>>,
     <<341474, 36395, 0, 45127, 24712, 545900, 44267, 52594, 5560>>,
     <<333847, 16243, 45127, 0, 30400, 501093, 20453, 27284, 42173>>,
     <<322109, 31710, 24712, 30400, 0, 525317, 40928, 50162, 25731>>,
     <<535446, 513436, 545900, 501093, 525317, 0, 509332, 505364, 543260>>,
     <<354029, 9263, 44267, 20453, 40928, 509332, 0, 9263, 39466>>,
     <<361010, 18526, 52594, 27284, 50162, 505364, 9263, 0, 47552>>,
     <<345174, 32026, 5560, 42173, 25731, 543260, 39466, 47552, 0>> >>

PointIndex(c) == CHOOSE i \in DOMAIN Points : Points[i] = c

getDistance(c1, c2) == DistanceTable[PointIndex(c1)][PointIndex(c2)]

\* -------------------------------------------------------------- seed data
NoComments == <<>>
NoAnalysis == <<>>

Seed(id, name, lat, lng, population, activeCases, status, symptoms) ==
  [ id |-> id, name |-> name, district |-> IF id = "v1" THEN "Krishna" ELSE "Vizianagaram",
    coordinates |-> [lat |-> lat, lng |-> lng],
    population |-> population, activeCases |-> activeCases, status |-> status,
    lastAshaWorker |-> <<>>, dominantSymptoms |-> symptoms,
    comments |-> NoComments, lastAnalysis |-> NoAnalysis ]

INITIAL_VILLAGES ==
  << Seed("v1", "Pedana", 162556, 811667, 3100, 2, GREEN, << <<"Mild Fever">> >>),
     Seed("v2", "Bobbili", 185667, 833667, 5400, 15, YELLOW,
          << <<"Fever">>, <<"Body Pain">> >>),
     Seed("v3", "Cheepurupalli", 183000, 835667, 4200, 45, RED,
          << <<"High Fever">>, <<"Vomiting">>, <<"Rash">> >>),
     Seed("v4", "Salur", 185333, 832167, 3800, 5, GREEN, <<>>),
     Seed("v5", "Gajapathinagaram", 182833, 833333, 2900, 8, YELLOW,
          << <<"Cough">>, <<"Fever">> >>) >>

\* ------------------------------------------------------- the risk oracle
\* What ai.models.generateContent can do in analyzeVillageHealth: reject, or
\* resolve with a response whose text is one of RiskTexts.  (A Yellow answer is
\* drawn only for the saved snapshots below; the fallback already stores
\* Yellow.)
RiskTexts ==
  {"", "I cannot help with that", "null",
   "{riskLevel:Green}", "{riskLevel:Red}", "{riskLevel:Orange}"}

RiskResponses ==
  {[threw |-> TRUE, text |-> ""]} \cup {[threw |-> FALSE, text |-> t] : t \in RiskTexts}

Analysis(riskLevel, chance, diagnosis) ==
  [riskLevel |-> riskLevel, predictedOutbreakChance |-> chance,
   possibleDiagnosis |-> diagnosis]

\* JSON.parse on a response text: ok = FALSE for a SyntaxError; otherwise
\* value is <<>> for JSON null and <<object>> for an object.
JSONParse(text) ==
  CASE text = "null"               -> [ok |-> TRUE, value |-> <<>>]
    [] text = "{riskLevel:Green}"  -> [ok |-> TRUE, value |-> <<Analysis(GREEN, 10, "Viral Fever")>>]
    [] text = "{riskLevel:Yellow}" -> [ok |-> TRUE, value |-> <<Analysis(YELLOW, 40, "Viral Fever")>>]
    [] text = "{riskLevel:Red}"    -> [ok |-> TRUE, value |-> <<Analysis(RED, 90, "Likely Dengue")>>]
    [] text = "{riskLevel:Orange}" -> [ok |-> TRUE, value |-> <<Analysis("Orange", 70, "Likely Malaria")>>]
    [] OTHER                       -> [ok |-> FALSE, value |-> <<>>]

\* History only: how the oracle call of an ingestion ended, as the caller of
\* generateContent sees it.  "failed" is a rejection, an empty text or a text
\* that is not JSON; otherwise the riskLevel of the parsed value ("null" for
\* JSON null).
OracleOutcome(resp) ==
  IF resp.threw \/ resp.text = "" \/ ~JSONParse(resp.text).ok THEN "failed"
  ELSE IF JSONParse(resp.text).value = <<>> THEN "null"
  ELSE JSONParse(resp.text).value[1].riskLevel

\* The object of analyzeVillageHealth's catch block.
FallbackAnalysis == Analysis(YELLOW, 50, "Analysis Failed - Refer to Doctor")

\* Variant: JSON.parse outside the try block, so a text that is not JSON
\* escapes the catch (the caller sees no analysis).
analyzeVillageHealth_ParseUncaught(village, newReport, resp) ==
  IF resp.threw THEN <<FallbackAnalysis>>
  ELSE IF resp.text = "" THEN <<FallbackAnalysis>>
  ELSE JSONParse(resp.text).value

\* analyzeVillageHealth: what the returned promise resolves with, <<>> being
\* null.  The function never rejects.
analyzeVillageHealth(village, newReport, resp) ==
  IF resp.threw THEN <<FallbackAnalysis>>
  ELSE IF resp.text = "" THEN <<FallbackAnalysis>>
  ELSE IF ~JSONParse(resp.text).ok THEN <<FallbackAnalysis>>
  ELSE JSONParse(resp.text).value

\* -------------------------------------------------------------- clustering
DISTANCE_THRESHOLD == 15000

\* Variant: the distance is taken from the member added last, not from the
\* anchor.
RECURSIVE FindNeighbors_Chained(_, _, _, _, _)
FindNeighbors_Chained(unsafeVillages, v1, j, currentCluster, processed) ==
  IF j > Len(unsafeVillages)
  THEN [currentCluster |-> currentCluster, processed |-> processed]
  ELSE LET v2 == unsafeVillages[j]
           tip == currentCluster[Len(currentCluster)]
       IN  IF v2.id \notin processed
              /\ getDistance(tip.coordinates, v2.coordinates) <= 15000
           THEN FindNeighbors_Chained(unsafeVillages, v1, j + 1,
                                      Append(currentCluster, v2), processed \cup {v2.id})
           ELSE FindNeighbors_Chained(unsafeVillages, v1, j + 1, currentCluster, processed)

\* Variant: a village that joins is not added to processed.
RECURSIVE FindNeighbors_NoMark(_, _, _, _, _)
FindNeighbors_NoMark(unsafeVillages, v1, j, currentCluster, processed) ==
  IF j > Len(unsafeVillages)
  THEN [currentCluster |-> currentCluster, processed |-> processed]
  ELSE LET v2 == unsafeVillages[j]
       IN  IF v2.id \notin processed
              /\ getDistance(v1.coordinates, v2.coordinates) <= DISTANCE_THRESHOLD
           THEN FindNeighbors_NoMark(unsafeVillages, v1, j + 1,
                                     Append(currentCluster, v2), processed)
           ELSE FindNeighbors_NoMark(unsafeVillages, v1, j + 1, currentCluster, processed)

\* The inner loop of analyzeClusters from index j on: the neighbours of the
\* anchor v1 that are not yet processed join currentCluster.
RECURSIVE FindNeighbors(_, _, _, _, _)
FindNeighbors(unsafeVillages, v1, j, currentCluster, processed) ==
  IF j > Len(unsafeVillages)
  THEN [currentCluster |-> currentCluster, processed |-> processed]
  ELSE LET v2 == unsafeVillages[j]
       IN  IF v2.id \in processed
           THEN FindNeighbors(unsafeVillages, v1, j + 1, currentCluster, processed)
           ELSE IF getDistance(v1.coordinates, v2.coordinates) <= DISTANCE_THRESHOLD
                THEN FindNeighbors(unsafeVillages, v1, j + 1,
                                   Append(currentCluster, v2), processed \cup {v2.id})
                ELSE FindNeighbors(unsafeVillages, v1, j + 1, currentCluster, processed)

\* The outer loop of analyzeClusters from index i on (1-based here): the
\* groups of size >= 2, each with the 0-based index of its anchor.
RECURSIVE GroupFrom(_, _, _)
RECURSIVE GroupFrom_KeepsSingletons(_, _, _)

\* Variant: the size test is dropped, an anchor alone is pushed too.
GroupFrom_KeepsSingletons(unsafeVillages, i, processed) ==
  IF i > Len(unsafeVillages) THEN <<>>
  ELSE LET v1 == unsafeVillages[i]
       IN  IF v1.id \in processed
           THEN GroupFrom_KeepsSingletons(unsafeVillages, i + 1, processed)
           ELSE LET r == FindNeighbors(unsafeVillages, v1, i + 1, <<v1>>,
                                       processed \cup {v1.id})
                IN  <<[i |-> i - 1, members |-> r.currentCluster]>>
                    \o GroupFrom_KeepsSingletons(unsafeVillages, i + 1, r.processed)

GroupFrom(unsafeVillages, i, processed) ==
  IF i > Len(unsafeVillages) THEN <<>>
  ELSE LET v1 == unsafeVillages[i]
       IN  IF v1.id \in processed THEN GroupFrom(unsafeVillages, i + 1, processed)
           ELSE LET r == FindNeighbors(unsafeVillages, v1, i + 1, <<v1>>,
                                       processed \cup {v1.id})
                IN  IF Len(r.currentCluster) >= 2
                    THEN <<[i |-> i - 1, members |-> r.currentCluster]>>
                         \o GroupFrom(unsafeVillages, i + 1, r.processed)
                    ELSE GroupFrom(unsafeVillages, i + 1, r.processed)

IsUnsafe(v) == v.status # GREEN

\* UnsafeVillages as it would be without the filter.
UnsafeVillages_All(vs) == vs

UnsafeVillages(vs) == SelectSeq(vs, IsUnsafe)

Groups(vs) == GroupFrom(UnsafeVillages(vs), 1, {})

RECURSIVE SumLat(_)
SumLat(members) ==
  IF members = <<>> THEN 0 ELSE Head(members).coordinates.lat + SumLat(Tail(members))

RECURSIVE SumLng(_)
SumLng(members) ==
  IF members = <<>> THEN 0 ELSE Head(members).coordinates.lng + SumLng(Tail(members))

\* Severity as it would be if Red needed every member to be Red.
Severity_AllRed(members) ==
  IF \A k \in DOMAIN members : members[k].status = RED THEN RED ELSE YELLOW

Severity(members) ==
  IF \E k \in DOMAIN members : members[k].status = RED THEN RED ELSE YELLOW

\* What the advisory oracle can do: reject, or resolve with a text.
AdviceResponses ==
  {[threw |-> TRUE, text |-> ""], [threw |-> FALSE, text |-> ""],
   [threw |-> FALSE, text |-> "Deploy mobile clinics."]}

FallbackAdvice == "Cluster detected. Coordinate resources."

\* AiAdvice as it would be without the try/catch default: a failed call
\* leaves no advice text.
AiAdvice_NoDefault(resp) ==
  IF resp.threw THEN "" ELSE IF resp.text # "" THEN resp.text ELSE FallbackAdvice

AiAdvice(resp) ==
  IF resp.threw THEN FallbackAdvice
  ELSE IF resp.text # "" THEN resp.text ELSE FallbackAdvice

\* Cluster as it would be if the members were listed last-joined first.
Cluster_ReversedMembers(g, resp) ==
  [ id |-> g.i,
    villageIds |-> [k \in DOMAIN g.members |-> g.members[Len(g.members) + 1 - k].id],
    center |-> [lat |-> <<SumLat(g.members), Len(g.members)>>,
                lng |-> <<SumLng(g.members), Len(g.members)>>],
    radius |-> DISTANCE_THRESHOLD \div 2,
    severity |-> Severity(g.members),
    aiAdvice |-> AiAdvice(resp) ]

\* Cluster as it would be if the centre were the anchor's position.
Cluster_CenterAtAnchor(g, resp) ==
  [ id |-> g.i,
    villageIds |-> [k \in DOMAIN g.members |-> g.members[k].id],
    center |-> [lat |-> <<g.members[1].coordinates.lat, 1>>,
                lng |-> <<g.members[1].coordinates.lng, 1>>],
    radius |-> DISTANCE_THRESHOLD \div 2,
    severity |-> Severity(g.members),
    aiAdvice |-> AiAdvice(resp) ]

\* Cluster as it would be if a failed advisory call downgraded the alert.
Cluster_FailureLowersSeverity(g, resp) ==
  [ id |-> g.i,
    villageIds |-> [k \in DOMAIN g.members |-> g.members[k].id],
    center |-> [lat |-> <<SumLat(g.members), Len(g.members)>>,
                lng |-> <<SumLng(g.members), Len(g.members)>>],
    radius |-> DISTANCE_THRESHOLD \div 2,
    severity |-> IF resp.threw THEN YELLOW ELSE Severity(g.members),
    aiAdvice |-> AiAdvice(resp) ]

\* The object pushed for one group.  center.lat is the quotient
\* latSum / length, kept as the pair <<latSum, length>>.
Cluster(g, resp) ==
  [ id |-> g.i,
    villageIds |-> [k \in DOMAIN g.members |-> g.members[k].id],
    center |-> [lat |-> <<SumLat(g.members), Len(g.members)>>,
                lng |-> <<SumLng(g.members), Len(g.members)>>],
    radius |-> DISTANCE_THRESHOLD \div 2,
    severity |-> Severity(g.members),
    aiAdvice |-> AiAdvice(resp) ]

\* ------------------------------------------------------------------ state
VARIABLES
  villages,     \* App: useState villages
  clusters,     \* App: useState clusters
  isAnalyzing,  \* App: useState isAnalyzing
  mounted,      \* the first render's effect (useEffect on [villages]) has run
  pending,      \* the handleReportSubmit calls suspended at their await, oldest
                \* first: [report, villageName, village, isNewVillage]
  passes,       \* the analyzeClusters calls suspended at an advisory await,
                \* oldest first: [todo, out]
  last,         \* history: the handleReportSubmit call that resumed last
  nReports,     \* history: reports submitted so far (the clock of Date.now())
  nComments,    \* history: comments added so far (the source of randomUUID())
  nOracleCalls, \* history: calls of generateContent made by analyzeVillageHealth
  nCommits,     \* history: setVillages calls made by handleReportSubmit
  saved         \* localStorage item healthguard_villages: <<>> when there is
                \* none, else <<the stored list>>

vars ==
  <<villages, clusters, isAnalyzing, mounted, pending, passes, last, nReports, nComments,
    nOracleCalls, nCommits, saved>>

\* ------------------------------------------------------------ input sets
\* What the worker types into AshaForm.
VillageNames == {"Cheepurupalli", "Kotha"}

WorkerLocations == { <<"18.65", ",", " 83.3667">> }

\* The symptoms text, the affected count and the sanitation level of a report.
ReportBodies ==
  { [symptoms |-> <<",", " Cough">>, affectedCount |-> 1, sanitationStatus |-> "Worst"],
    [symptoms |-> <<"Fever", ",", " Cough">>, affectedCount |-> 5, sanitationStatus |-> "Good"] }

\* The villages a visitor selects to comment on.
CommentVillages == {"v3"}

CommentTexts == {"", " ", "Send a team"}

\* String.prototype.toLowerCase on the names that occur.
ToLowerCase(name) ==
  CASE name = "Bobbili"          -> "bobbili"
    [] name = "Cheepurupalli"    -> "cheepurupalli"
    [] name = "Pedana"           -> "pedana"
    [] name = "Salur"            -> "salur"
    [] name = "Gajapathinagaram" -> "gajapathinagaram"
    [] name = "Kotha"            -> "kotha"
    [] name = "Palem"            -> "palem"
    [] OTHER                     -> name

\* String.prototype.trim on the comment texts that occur.
Trim(text) == IF text = " " THEN "" ELSE text

\* Array.prototype.find: <<>> for undefined, else <<first match>>.
FindById(vs, id) ==
  LET hits == {i \in DOMAIN vs : vs[i].id = id}
  IN  IF hits = {} THEN <<>>
      ELSE <<vs[CHOOSE i \in hits : \A j \in hits : i <= j]>>

FindByName(vs, name) ==
  LET hits == {i \in DOMAIN vs : ToLowerCase(vs[i].name) = ToLowerCase(name)}
  IN  IF hits = {} THEN <<>>
      ELSE <<vs[CHOOSE i \in hits : \A j \in hits : i <= j]>>

\* --------------------------------------------------------- detection pass
\* useEffect on [villages] -> runClusterAnalysis(vs) -> analyzeClusters(vs),
\* run until the call first suspends or returns.  With no group of two the
\* call returns [] without suspending and setClusters([]) follows; otherwise
\* it suspends at the advisory await of its first group.
StartsAwaiting(vs) == Len(vs) > 0 /\ Groups(vs) # <<>>

PassesAfterEffect(vs) ==
  IF StartsAwaiting(vs)
  THEN Append(passes, [todo |-> Groups(vs), out |-> <<>>])
  ELSE passes

ClustersAfterEffect(vs) ==
  IF Len(vs) > 0 /\ Groups(vs) = <<>> THEN <<>> ELSE clusters

\* --------------------------------------------------------------- actions
\* The effect of the first render: the list from the useState initializer is
\* handed to runClusterAnalysis.
Mount ==
  /\ ~mounted
  /\ mounted' = TRUE
  /\ saved' = <<villages>>
  /\ passes' = PassesAfterEffect(villages)
  /\ clusters' = ClustersAfterEffect(villages)
  /\ UNCHANGED <<villages, isAnalyzing, pending, last, nReports, nComments,
                 nOracleCalls, nCommits>>

\* NewVillage as it would be if the parsed pair were never assigned to coords.
NewVillage_IgnoresLocation(report, villageName) ==
  [ id |-> report.villageId, name |-> villageName, district |-> "Detected via GPS",
    coordinates |-> [lat |-> 205937, lng |-> 789629], population |-> 1000,
    activeCases |-> 0, status |-> GREEN, lastAshaWorker |-> <<>>,
    dominantSymptoms |-> <<>>, comments |-> NoComments, lastAnalysis |-> NoAnalysis ]

\* The village handleReportSubmit makes up for an id it does not find.
NewVillage(report, villageName) ==
  LET parts  == SplitComma(report.workerLocation)
      lat    == ParseFloatTrim(parts[1])
      lng    == ParseFloatTrim(parts[2])
      coords == IF Len(report.workerLocation) > 0 /\ IncludesComma(report.workerLocation)
                   /\ lat # <<>> /\ lng # <<>>
                THEN [lat |-> lat[1], lng |-> lng[1]]
                ELSE [lat |-> 205937, lng |-> 789629]
  IN  [ id |-> report.villageId, name |-> villageName, district |-> "Detected via GPS",
        coordinates |-> coords, population |-> 1000, activeCases |-> 0,
        status |-> GREEN, lastAshaWorker |-> <<>>, dominantSymptoms |-> <<>>,
        comments |-> NoComments, lastAnalysis |-> NoAnalysis ]

\* handleReportSubmit(report, villageName) up to its await: the village is
\* looked up or made up and analyzeVillageHealth is called, which calls the
\* oracle once.
handleReportSubmit(report, villageName) ==
  LET found == FindById(villages, report.villageId)
  IN  /\ mounted
      /\ nReports < MaxReports
      /\ isAnalyzing' = TRUE
      /\ pending' = Append(pending,
                           [ report |-> report, villageName |-> villageName,
                             village |-> IF found # <<>> THEN found[1]
                                         ELSE NewVillage(report, villageName),
                             isNewVillage |-> (found = <<>>) ])
      /\ nReports' = nReports + 1
      /\ nOracleCalls' = nOracleCalls + 1
      /\ UNCHANGED <<villages, clusters, mounted, passes, last, nComments, nCommits, saved>>

\* SubmitReport as it would be if the submit button ignored isSubmitting.
SubmitReport_ButtonEnabled(selectedVillageName, workerLocation, symptoms, affectedCount, sanitationStatus) ==
  LET matchedVillage == FindByName(villages, selectedVillageName)
      villageId == IF matchedVillage # <<>> THEN matchedVillage[1].id
                   ELSE "new-" \o ToString(nReports + 1)
      report == [ villageId |-> villageId, workerName |-> "Lakshmi",
                  workerLocation |-> workerLocation, sanitationStatus |-> sanitationStatus,
                  symptoms |-> symptoms, affectedCount |-> affectedCount ]
  IN  /\ ~(matchedVillage = <<>> /\ (workerLocation = <<>> \/ ~IncludesComma(workerLocation)))
      /\ handleReportSubmit(report, selectedVillageName)

\* AshaForm.handleSubmit, which ends by calling handleReportSubmit.  The
\* submit button is disabled while isSubmitting (= isAnalyzing).
SubmitReport(selectedVillageName, workerLocation, symptoms, affectedCount, sanitationStatus) ==
  LET matchedVillage == FindByName(villages, selectedVillageName)
      villageId == IF matchedVillage # <<>> THEN matchedVillage[1].id
                   ELSE "new-" \o ToString(nReports + 1)
      report == [ villageId |-> villageId, workerName |-> "Lakshmi",
                  workerLocation |-> workerLocation, sanitationStatus |-> sanitationStatus,
                  symptoms |-> symptoms, affectedCount |-> affectedCount ]
  IN  /\ ~isAnalyzing
      /\ ~(matchedVillage = <<>> /\ (workerLocation = <<>> \/ ~IncludesComma(workerLocation)))
      /\ handleReportSubmit(report, selectedVillageName)

\* Variant: counts the report, not the people in it.
UpdatedVillage_CountsReports(village, report, analysis) ==
  [ village EXCEPT
      !.activeCases = village.activeCases + 1,
      !.status = analysis.riskLevel,
      !.lastAshaWorker = <<report.workerName>>,
      !.dominantSymptoms =
          Dedup(Append(village.dominantSymptoms,
                       IF SplitComma(report.symptoms)[1] # <<>>
                       THEN SplitComma(report.symptoms)[1] ELSE <<"Unknown">>)),
      !.lastAnalysis = <<analysis>> ]

\* Variant: overwrites the case count with the report's count.
UpdatedVillage_OverwritesCases(village, report, analysis) ==
  [ village EXCEPT
      !.activeCases = report.affectedCount,
      !.status = analysis.riskLevel,
      !.lastAshaWorker = <<report.workerName>>,
      !.dominantSymptoms =
          Dedup(Append(village.dominantSymptoms,
                       IF SplitComma(report.symptoms)[1] # <<>>
                       THEN SplitComma(report.symptoms)[1] ELSE <<"Unknown">>)),
      !.lastAnalysis = <<analysis>> ]

\* Variant: merges every token of the report's symptoms, not only the first.
UpdatedVillage_AllSymptoms(village, report, analysis) ==
  [ village EXCEPT
      !.activeCases = village.activeCases + report.affectedCount,
      !.status = analysis.riskLevel,
      !.lastAshaWorker = <<report.workerName>>,
      !.dominantSymptoms =
          Dedup(village.dominantSymptoms \o
                [k \in DOMAIN SplitComma(report.symptoms) |->
                   IF SplitComma(report.symptoms)[k] # <<>>
                   THEN SplitComma(report.symptoms)[k] ELSE <<"Unknown">>]),
      !.lastAnalysis = <<analysis>> ]

\* Variant: the sanitation rule of the prompt enforced locally, a report with
\* sanitation Worst never leaving the village Green.
UpdatedVillage_SanitationFloor(village, report, analysis) ==
  [ village EXCEPT
      !.activeCases = village.activeCases + report.affectedCount,
      !.status = IF report.sanitationStatus = "Worst" /\ analysis.riskLevel = GREEN
                 THEN YELLOW ELSE analysis.riskLevel,
      !.lastAshaWorker = <<report.workerName>>,
      !.dominantSymptoms =
          Dedup(Append(village.dominantSymptoms,
                       IF SplitComma(report.symptoms)[1] # <<>>
                       THEN SplitComma(report.symptoms)[1] ELSE <<"Unknown">>)),
      !.lastAnalysis = <<analysis>> ]

\* Variant: a Red village stays Red whatever the analysis says.
UpdatedVillage_NeverDowngrades(village, report, analysis) ==
  [ village EXCEPT
      !.activeCases = village.activeCases + report.affectedCount,
      !.status = IF village.status = RED THEN RED ELSE analysis.riskLevel,
      !.lastAshaWorker = <<report.workerName>>,
      !.dominantSymptoms =
          Dedup(Append(village.dominantSymptoms,
                       IF SplitComma(report.symptoms)[1] # <<>>
                       THEN SplitComma(report.symptoms)[1] ELSE <<"Unknown">>)),
      !.lastAnalysis = <<analysis>> ]

\* The object built at lines 155-164 of handleReportSubmit.
UpdatedVillage(village, report, analysis) ==
  LET first == SplitComma(report.symptoms)[1]
  IN  [ village EXCEPT
          !.activeCases = village.activeCases + report.affectedCount,
          !.status = analysis.riskLevel,
          !.lastAshaWorker = <<report.workerName>>,
          !.dominantSymptoms =
              Dedup(Append(village.dominantSymptoms,
                           IF first # <<>> THEN first ELSE <<"Unknown">>)),
          !.comments = village.comments,
          !.lastAnalysis = <<analysis>> ]

\* CommitVillage as it would be if the updater appended in both branches.
CommitVillage_AlwaysAppends(prev, updatedVillage, isNewVillage) ==
  Append(prev, updatedVillage)

\* CommitVillage as it would be if an existing entry were removed and the
\* updated village put at the end.
CommitVillage_MovesToEnd(prev, updatedVillage, isNewVillage) ==
  Append(SelectSeq(prev, LAMBDA v : v.id # updatedVillage.id), updatedVillage)

\* The updater given to setVillages, applied to the current list prev.
CommitVillage(prev, updatedVillage, isNewVillage) ==
  IF isNewVillage THEN Append(prev, updatedVillage)
  ELSE [k \in DOMAIN prev |->
          IF prev[k].id = updatedVillage.id THEN updatedVillage ELSE prev[k]]

\* The risk oracle settles and handleReportSubmit resumes after its await.  A
\* null analysis makes analysis.riskLevel throw: the handler's promise rejects
\* before setVillages and setIsAnalyzing(false).
OracleResponds(resp) ==
  /\ Len(passes) < MaxPasses
  /\ \E n \in DOMAIN pending :
       LET p == pending[n]
           analysis == analyzeVillageHealth(p.village, p.report, resp)
           before == FindById(villages, p.report.villageId)
           h == [ villageId |-> p.report.villageId,
                  affectedCount |-> p.report.affectedCount,
                  workerLocation |-> p.report.workerLocation,
                  sanitationStatus |-> p.report.sanitationStatus,
                  isNewVillage |-> p.isNewVillage,
                  oracle |-> OracleOutcome(resp), threw |-> (analysis = <<>>),
                  casesBefore |-> IF before = <<>> THEN 0 ELSE before[1].activeCases ]
       IN  /\ pending' = SubSeq(pending, 1, n - 1) \o SubSeq(pending, n + 1, Len(pending))
           /\ last' = <<h>>
           /\ IF analysis = <<>>
              THEN UNCHANGED <<villages, clusters, isAnalyzing, passes, nCommits, saved>>
              ELSE LET vs == CommitVillage(villages,
                                           UpdatedVillage(p.village, p.report, analysis[1]),
                                           p.isNewVillage)
                   IN  /\ villages' = vs
                       /\ saved' = <<vs>>
                       /\ nCommits' = nCommits + 1
                       /\ isAnalyzing' = FALSE
                       /\ passes' = PassesAfterEffect(vs)
                       /\ clusters' = ClustersAfterEffect(vs)
  /\ UNCHANGED <<mounted, nReports, nComments, nOracleCalls>>

\* AddComment as it would be with filter in place of map: only the commented
\* village stays.
AddComment_KeepsOnlyTarget(vs, villageId, newComment) ==
  LET kept == SelectSeq(vs, LAMBDA v : v.id = villageId)
  IN  [k \in DOMAIN kept |->
         [kept[k] EXCEPT !.comments = <<newComment>> \o kept[k].comments]]

\* AddComment as it would be if the new comment went to the end of the list.
AddComment_Appends(vs, villageId, newComment) ==
  [k \in DOMAIN vs |->
     IF vs[k].id = villageId
     THEN [vs[k] EXCEPT !.comments = Append(vs[k].comments, newComment)]
     ELSE vs[k]]

\* handleAddComment for the selected village with commentText = text.
AddComment(vs, villageId, newComment) ==
  [k \in DOMAIN vs |->
     IF vs[k].id = villageId
     THEN [vs[k] EXCEPT !.comments = <<newComment>> \o vs[k].comments]
     ELSE vs[k]]

handleAddComment(villageId, text) ==
  /\ mounted
  /\ nComments < MaxComments
  /\ Len(passes) < MaxPasses
  /\ IF Trim(text) = ""
     THEN UNCHANGED vars
     ELSE LET newComment == [id |-> nComments + 1, author |-> "Public User", text |-> text]
              vs == AddComment(villages, villageId, newComment)
          IN  /\ villages' = vs
              /\ saved' = <<vs>>
              /\ nComments' = nComments + 1
              /\ passes' = PassesAfterEffect(vs)
              /\ clusters' = ClustersAfterEffect(vs)
              /\ UNCHANGED <<isAnalyzing, mounted, pending, last, nReports,
                             nOracleCalls, nCommits>>

\* The advisory oracle settles for pass k: analyzeClusters pushes the cluster
\* of the group it was waiting for, and either suspends at the next group's
\* await or returns, after which runClusterAnalysis calls setClusters.
AdviceResponds(k, resp) ==
  /\ k \in DOMAIN passes
  /\ LET p   == passes[k]
         out == Append(p.out, Cluster(Head(p.todo), resp))
     IN  IF Len(p.todo) > 1
         THEN /\ passes' = [passes EXCEPT ![k] = [p EXCEPT !.todo = Tail(p.todo), !.out = out]]
              /\ UNCHANGED clusters
         ELSE /\ passes' = SubSeq(passes, 1, k - 1) \o SubSeq(passes, k + 1, Len(passes))
              /\ clusters' = out
  /\ UNCHANGED <<villages, isAnalyzing, mounted, pending, last, nReports, nComments,
                 nOracleCalls, nCommits, saved>>

\* ----------------------------------------------------------------- loader
\* LoadVillage as it would be if the migration gave every record a new empty
\* comment list.
LoadVillage_ResetsComments(v) ==
  [f \in DOMAIN v \cup {"comments"} |-> IF f = "comments" THEN <<>> ELSE v[f]]

\* ({ ...v, comments: v.comments || [] }) on one stored record, which has a
\* comment list or no comments field at all.
LoadVillage(v) ==
  IF "comments" \in DOMAIN v THEN v
  ELSE [f \in DOMAIN v \cup {"comments"} |-> IF f = "comments" THEN <<>> ELSE v[f]]

\* The useState initializer of villages: the stored list, migrated, or the
\* seed list when nothing is stored.
LoadVillages(item) ==
  IF item = <<>> THEN INITIAL_VILLAGES
  ELSE [k \in DOMAIN item[1] |-> LoadVillage(item[1][k])]

\* ----------------------------------------------------------- specification
\* The state after the first render with nothing saved in localStorage: the
\* useState initializers have run, the effects have not.
\* Everything but the list: no cluster, no call in flight, nothing counted.
Fresh ==
  /\ clusters = <<>>
  /\ isAnalyzing = FALSE
  /\ mounted = FALSE
  /\ pending = <<>>
  /\ passes = <<>>
  /\ last = <<>>
  /\ nReports = 0
  /\ nComments = 0
  /\ nOracleCalls = 0
  /\ nCommits = 0

Init ==
  /\ saved = <<>>
  /\ villages = LoadVillages(saved)
  /\ Fresh

Next ==
  \/ Mount
  \/ \E n \in VillageNames, loc \in WorkerLocations, b \in ReportBodies :
        SubmitReport(n, loc, b.symptoms, b.affectedCount, b.sanitationStatus)
  \/ \E resp \in RiskResponses : OracleResponds(resp)
  \/ \E i \in DOMAIN villages, t \in CommentTexts :
        villages[i].id \in CommentVillages /\ handleAddComment(villages[i].id, t)
  \/ \E k \in DOMAIN passes, resp \in AdviceResponses : AdviceResponds(k, resp)

Spec == Init /\ [][Next]_vars

\* What the code itself schedules: React runs the effect of the first render.
\* OracleResponds and AdviceResponds happen when the network call settles,
\* which no line of the code brings about: there is no timer, AbortSignal or
\* Promise.race around either generateContent call.
SpecLive == Init /\ [][Next]_vars /\ WF_vars(Mount)

\* ------------------------------------------- start from a saved snapshot
\* One complete ingestion on the list vs at clock value now: handleSubmit,
\* handleReportSubmit and the oracle's answer resp (which yields an analysis).
Ingest(vs, name, workerLocation, body, resp, now) ==
  LET matchedVillage == FindByName(vs, name)
      villageId == IF matchedVillage # <<>> THEN matchedVillage[1].id
                   ELSE "new-" \o ToString(now)
      report == [ villageId |-> villageId, workerName |-> "Lakshmi",
                  workerLocation |-> workerLocation, sanitationStatus |-> "Good",
                  symptoms |-> body.symptoms, affectedCount |-> body.affectedCount ]
      found == FindById(vs, villageId)
      village == IF found # <<>> THEN found[1] ELSE NewVillage(report, name)
      analysis == analyzeVillageHealth(village, report, resp)
  IN  CommitVillage(vs, UpdatedVillage(village, report, analysis[1]), found = <<>>)

\* The reports of earlier sessions that made the snapshot: optionally one for
\* Pedana and one for Bobbili, then up to MaxNewVillages for new names.
SnapshotBody == [symptoms |-> <<"Fever", ",", " Cough">>, affectedCount |-> 1]

Answer(text) == [threw |-> FALSE, text |-> text]

SnapshotAnswers == {"{riskLevel:Green}", "{riskLevel:Yellow}", "{riskLevel:Red}"}

SnapshotLocations ==
  { <<"18.65", ",", " 83.3667">>, <<"18.7333", ",", " 83.3667">>,
    <<"18.35", ",", " 83.5667">>, <<"abc", ",", "def">> }

NewNames == <<"Kotha", "Palem", "Gudem", "Valasa">>

NewVillageReports == [loc : SnapshotLocations, text : SnapshotAnswers]

SeedSnapshots ==
  LET s1 == {INITIAL_VILLAGES,
             Ingest(INITIAL_VILLAGES, "Pedana", <<>>, SnapshotBody,
                    Answer("{riskLevel:Yellow}"), 0)}
  IN  s1 \cup {Ingest(vs, "Bobbili", <<>>, SnapshotBody, Answer(t), 0) :
                 vs \in s1, t \in {"{riskLevel:Green}", "{riskLevel:Red}"}}

RECURSIVE AddNewVillages(_, _, _)
AddNewVillages(vs, reports, k) ==
  IF reports = <<>> THEN vs
  ELSE AddNewVillages(Ingest(vs, NewNames[k], Head(reports).loc, SnapshotBody,
                             Answer(Head(reports).text), k),
                      Tail(reports), k + 1)

SavedSnapshots ==
  { AddNewVillages(vs, reports, 1) :
      vs \in SeedSnapshots,
      reports \in UNION {[1..n -> NewVillageReports] : n \in 0..MaxNewVillages} }

\* The state after the first render when localStorage holds a snapshot (every
\* record of which has its comments array).
InitDetect ==
  /\ saved \in {<<vs>> : vs \in SavedSnapshots}
  /\ villages = LoadVillages(saved)
  /\ Fresh

\* The detection pass of the first render, followed to its end.
NextDetect ==
  \/ Mount
  \/ \E k \in DOMAIN passes, resp \in AdviceResponses : AdviceResponds(k, resp)

SpecDetect == InitDetect /\ [][NextDetect]_vars

\* -------------------------------- snapshots saved by an older version
\* Two comments Cheepurupalli got in an earlier session, newest first.
EarlierComments ==
  << [id |-> 102, author |-> "Public User", text |-> "Is the well closed?"],
     [id |-> 101, author |-> "Public User", text |-> "Water is muddy"] >>

\* A stored record without its comments field.
WithoutComments(v) == [f \in DOMAIN v \ {"comments"} |-> v[f]]

\* The lists an older session left: the seed list after optional reports for
\* Pedana and Bobbili and up to MaxOldNewVillages new villages, with or
\* without two comments on Cheepurupalli.
OldLists ==
  LET base == { AddNewVillages(vs, reports, 1) :
                  vs \in SeedSnapshots,
                  reports \in UNION {[1..n -> NewVillageReports] : n \in 0..MaxOldNewVillages} }
  IN  base \cup
      { AddComment(AddComment(vs, "v3", EarlierComments[2]), "v3", EarlierComments[1]) :
          vs \in base }

\* What localStorage can hold: such a list as the current version writes it,
\* as a version without comments wrote it (no record has the field), or
\* with the field on Cheepurupalli only.
StoredSnapshots ==
  OldLists
    \cup {[k \in DOMAIN vs |-> WithoutComments(vs[k])] : vs \in OldLists}
    \cup {[k \in DOMAIN vs |-> IF vs[k].id = "v3" THEN vs[k] ELSE WithoutComments(vs[k])] :
            vs \in OldLists}

InitLoad ==
  /\ saved \in {<<vs>> : vs \in StoredSnapshots}
  /\ villages = LoadVillages(saved)
  /\ Fresh

\* The first render from what is stored, and the detection pass it starts.
SpecLoad == InitLoad /\ [][NextDetect]_vars

\* ------------------------------------ the handlers called with any argument
\* handleReportSubmit and handleAddComment are props: they take whatever
\* report and id they are handed, not only what AshaForm and the detail pane
\* let through.  The workerLocation strings of such a report: well formed,
\* without a comma, empty, and with either half not a number.
HandlerLocations ==
  { <<"18.65", ",", " 83.3667">>, <<"18.65">>, <<>>,
    <<"abc", ",", " 83.3667">>, <<"18.65", ",", "def">> }

\* The reports handed to handleReportSubmit: one for Cheepurupalli, and one
\* with an id no village has for each location.
HandlerReports ==
  LET Report(id, loc) ==
        [ villageId |-> id, workerName |-> "Lakshmi", workerLocation |-> loc,
          sanitationStatus |-> "Good", symptoms |-> SnapshotBody.symptoms,
          affectedCount |-> SnapshotBody.affectedCount ]
  IN  {[report |-> Report("v3", <<"18.65", ",", " 83.3667">>), villageName |-> "Cheepurupalli"]}
        \cup {[report |-> Report("new-" \o ToString(nReports + 1), loc), villageName |-> "Kotha"] :
                loc \in HandlerLocations}

\* The risk oracle rejects, answers Red, or answers the JSON text null.
HandlerAnswers == {[threw |-> TRUE, text |-> ""], Answer("{riskLevel:Red}"), Answer("null")}

\* The ids handed to handleAddComment: a village of the list and an id no
\* village has.
HandlerCommentIds == {"v3", "v0"}

\* The seed list, and the seed list with those two comments.
HandlerSnapshots ==
  { INITIAL_VILLAGES,
    AddComment(AddComment(INITIAL_VILLAGES, "v3", EarlierComments[2]), "v3", EarlierComments[1]) }

InitHandler ==
  /\ saved \in {<<vs>> : vs \in HandlerSnapshots}
  /\ villages = LoadVillages(saved)
  /\ Fresh

\* One handleReportSubmit call at a time, as the spinner flag isAnalyzing
\* stands for.
NextHandler ==
  \/ Mount
  \/ \E r \in HandlerReports : ~isAnalyzing /\ handleReportSubmit(r.report, r.villageName)
  \/ \E resp \in HandlerAnswers : OracleResponds(resp)
  \/ \E id \in HandlerCommentIds, t \in CommentTexts : handleAddComment(id, t)
  \/ \E k \in DOMAIN passes, resp \in AdviceResponses : AdviceResponds(k, resp)

SpecHandler == InitHandler /\ [][NextHandler]_vars

\* ================================================================ claims
\* The village of the list with the given id (<<>> when there is none).
VillageOf(id) == FindById(villages, id)

\* The ingestion that resumed last committed its village.
LastCommitted == last # <<>> /\ ~last[1].threw

\* C1: after an ingestion commits, the target village's activeCases is its
\* activeCases just before the commit (0 for a village that was not in the
\* list) plus report.affectedCount, whatever the oracle did.
C1_CasesAdded ==
  LastCommitted =>
    /\ VillageOf(last[1].villageId) # <<>>
    /\ VillageOf(last[1].villageId)[1].activeCases
         = last[1].casesBefore + last[1].affectedCount

\* C1 witness: an ingestion of 5 people into a village that had cases
\* committed after the oracle failed.
C1_Witness ==
  /\ LastCommitted
  /\ last[1].oracle = "failed"
  /\ last[1].casesBefore > 0
  /\ last[1].affectedCount = 5

\* C2: when the oracle call fails (rejection, empty text, text that is not
\* JSON) the ingestion commits with the fallback analysis: status Yellow,
\* predictedOutbreakChance 50, and the handler does not throw.
C2_FallbackOnFailure ==
  (last # <<>> /\ last[1].oracle = "failed") =>
    /\ ~last[1].threw
    /\ VillageOf(last[1].villageId) # <<>>
    /\ VillageOf(last[1].villageId)[1].status = YELLOW
    /\ VillageOf(last[1].villageId)[1].lastAnalysis # <<>>
    /\ VillageOf(last[1].villageId)[1].lastAnalysis[1].predictedOutbreakChance = 50

\* C2 witness: a failed oracle call for a village that was Red before.
C2_Witness ==
  /\ last # <<>>
  /\ last[1].oracle = "failed"
  /\ last[1].villageId = "v3"
  /\ VillageOf("v3")[1].status = YELLOW

\* C3 (as claimed): every village's status is Green, Yellow or Red.
C3_StatusInEnum ==
  \A i \in DOMAIN villages : villages[i].status \in HealthStatus

\* C4 (as claimed): an answer whose riskLevel is outside the enum is handled
\* like a failure, the fallback analysis being applied.
C4_OutOfEnumIsFailure ==
  (last # <<>> /\ last[1].oracle \notin (HealthStatus \cup {"failed", "null"})) =>
    /\ VillageOf(last[1].villageId) # <<>>
    /\ VillageOf(last[1].villageId)[1].lastAnalysis = <<FallbackAnalysis>>
    /\ VillageOf(last[1].villageId)[1].status = YELLOW

\* C5 (as claimed): no village has more than 3 dominantSymptoms.
C5_SymptomCap ==
  \A i \in DOMAIN villages : Len(villages[i].dominantSymptoms) <= 3

\* C6: from one state to the next no village's activeCases decreases: every
\* village of the list is still in the next list with at least as many cases.
C6_CasesMonotone ==
  [][\A i \in DOMAIN villages :
       \E j \in DOMAIN villages' :
          /\ villages'[j].id = villages[i].id
          /\ villages'[j].activeCases >= villages[i].activeCases]_vars

\* C6 witness: a comment was added and an ingestion into a village that had
\* cases committed.
C6_Witness ==
  /\ nComments > 0
  /\ LastCommitted
  /\ last[1].casesBefore > 0

\* C7 (as claimed): a comment of a village is still a comment of that village
\* in the next state.
C7_CommentsAppendOnly ==
  [][\A i \in DOMAIN villages : \A c \in Range(villages[i].comments) :
       \E j \in DOMAIN villages' :
          /\ villages'[j].id = villages[i].id
          /\ c \in Range(villages'[j].comments)]_vars

\* What identifies the grouping of a cluster list: member ids and severity.
Grouping(cs) ==
  [k \in DOMAIN cs |-> [villageIds |-> cs[k].villageIds, severity |-> cs[k].severity]]

\* The grouping analyzeClusters returns for the list vs.
Detected(vs) ==
  [k \in DOMAIN Groups(vs) |->
     [villageIds |-> Cluster(Groups(vs)[k], [threw |-> TRUE, text |-> ""]).villageIds,
      severity |-> Severity(Groups(vs)[k].members)]]

\* C8 (as claimed): once no detection pass is running, the stored clusters are
\* the detection result for the current village list.
C8_ClustersCurrent ==
  (mounted /\ passes = <<>>) => Grouping(clusters) = Detected(villages)

\* The detection pass of the current list has returned.
DetectionDone == mounted /\ passes = <<>>

\* Every cluster pushed so far, by a finished or a running pass.
EmittedClusters ==
  Range(clusters) \cup UNION {Range(passes[k].out) : k \in DOMAIN passes}

\* The non-Green villages in list order, and the place of an id among them.
U == UnsafeVillages(villages)

UIndex(id) == CHOOSE i \in DOMAIN U : U[i].id = id

Near(i, j) == getDistance(U[i].coordinates, U[j].coordinates) <= 15000

AnchorIndex(c) == UIndex(c.villageIds[1])

\* U[j] belongs to a cluster whose anchor comes before U[i]: it is processed
\* when the outer loop reaches U[i].
ProcessedBefore(j, i) ==
  \E c \in Range(clusters) : U[j].id \in Range(c.villageIds) /\ AnchorIndex(c) < i

InSomeCluster(i) == \E c \in Range(clusters) : U[i].id \in Range(c.villageIds)

\* U[i] is reached unprocessed and no later unprocessed village is within the
\* threshold of it.
AloneAtItsTurn(i) ==
  /\ ~ProcessedBefore(i, i)
  /\ \A j \in DOMAIN U : (j > i /\ Near(i, j)) => ProcessedBefore(j, i)

\* C9: every pushed cluster has at least 2 member ids, and a non-Green village
\* that has no other unprocessed non-Green village within the threshold when
\* the loop reaches it is in no cluster of the result.
C9_AtLeastTwoMembers ==
  /\ \A c \in EmittedClusters : Len(c.villageIds) >= 2
  /\ DetectionDone => \A i \in DOMAIN U : AloneAtItsTurn(i) => ~InSomeCluster(i)

\* C9 witness: a finished pass with a cluster, and a non-Green village left
\* out although another non-Green village is within the threshold of it.
C9_Witness ==
  /\ DetectionDone
  /\ clusters # <<>>
  /\ \E i \in DOMAIN U :
       /\ AloneAtItsTurn(i)
       /\ \E j \in DOMAIN U : j # i /\ Near(i, j)

\* A chain: U[a], U[b], U[c] in list order, the outer two farther apart than
\* the threshold, the middle one within it of both, and nothing else within
\* it of any of the three.
Chain(a, b, c) ==
  /\ a < b /\ b < c
  /\ Near(a, b) /\ Near(b, c) /\ ~Near(a, c)
  /\ \A w \in DOMAIN U \ {a, b, c} : ~Near(a, w) /\ ~Near(b, w) /\ ~Near(c, w)

\* C10: in the result, (1) every member of a cluster other than its anchor
\* comes after the anchor and is within 15000 m of the anchor; (2) a village
\* after the anchor that is unprocessed at the anchor's turn is a member
\* exactly when it is within 15000 m of the anchor; (3) a village reached
\* unprocessed that has a later unprocessed village within 15000 m anchors a
\* cluster; (4) for a chain A, B, C the result has the cluster <<A, B>> and no
\* cluster with C.
C10_StarGrouping ==
  DetectionDone =>
    /\ \A c \in Range(clusters) : \A k \in 2..Len(c.villageIds) :
          /\ UIndex(c.villageIds[k]) > AnchorIndex(c)
          /\ Near(AnchorIndex(c), UIndex(c.villageIds[k]))
    /\ \A c \in Range(clusters) : \A j \in DOMAIN U :
          (j > AnchorIndex(c) /\ ~ProcessedBefore(j, AnchorIndex(c))) =>
             (Near(AnchorIndex(c), j) <=> U[j].id \in Range(c.villageIds))
    /\ \A i \in DOMAIN U :
          (~ProcessedBefore(i, i) /\ ~AloneAtItsTurn(i)) =>
             \E c \in Range(clusters) : c.villageIds[1] = U[i].id
    /\ \A a, b, c \in DOMAIN U :
          Chain(a, b, c) =>
             /\ \E x \in Range(clusters) : x.villageIds = <<U[a].id, U[b].id>>
             /\ ~InSomeCluster(c)

\* C10 witness: a finished pass on a list with a chain.
C10_Witness ==
  /\ DetectionDone
  /\ \E a, b, c \in DOMAIN U : Chain(a, b, c)

\* C11: every emitted cluster's severity is Red exactly when at least one of
\* its member villages has status Red, and Yellow otherwise; it is never Green.
C11_SeverityFromMembers ==
  \A c \in EmittedClusters :
     LET someRed == \E k \in DOMAIN c.villageIds : VillageOf(c.villageIds[k])[1].status = RED
     IN  /\ c.severity \in {RED, YELLOW}
         /\ (c.severity = RED) <=> someRed

\* A Red cluster with a member that is not Red, next to which the list also
\* yields clusters; and the pass has returned.
C11_Witness ==
  /\ DetectionDone
  /\ \E c \in EmittedClusters :
        /\ c.severity = RED
        /\ \E k \in DOMAIN c.villageIds : VillageOf(c.villageIds[k])[1].status = YELLOW
        /\ \E k \in DOMAIN c.villageIds : VillageOf(c.villageIds[k])[1].status = RED

\* C12: when the advisory oracle's call for a group fails, the pass does not
\* raise: it pushes that group's cluster with the advice text
\* "Cluster detected. Coordinate resources." and goes on with the remaining
\* anchors (or returns its list when there are none).
C12_AdviceFailureTolerated ==
  [][\A k \in DOMAIN passes :
       AdviceResponds(k, [threw |-> TRUE, text |-> ""]) =>
         LET p       == passes[k]
             g       == Head(p.todo)
             more    == Len(p.todo) > 1
             emitted == IF more THEN passes'[k].out ELSE clusters'
             c       == emitted[Len(emitted)]
         IN  /\ Len(emitted) = Len(p.out) + 1
             /\ \A n \in DOMAIN p.out : emitted[n] = p.out[n]
             /\ c.villageIds = [n \in DOMAIN g.members |-> g.members[n].id]
             /\ c.aiAdvice = "Cluster detected. Coordinate resources."
             /\ more => /\ Len(passes') = Len(passes)
                        /\ passes'[k].todo = Tail(p.todo)
             /\ ~more => Len(passes') = Len(passes) - 1
    ]_vars

\* A pass that got the default text for its first cluster and went on to
\* push a second one with the oracle's text, then returned both.
C12_Witness ==
  /\ DetectionDone
  /\ Len(clusters) = 2
  /\ clusters[1].aiAdvice = FallbackAdvice
  /\ clusters[2].aiAdvice = "Deploy mobile clinics."

\* The text of str before its first comma, and the text between its first
\* comma and its second (or its end); the numbers a worker can type.
BeforeComma(str) ==
  SubSeq(str, 1, (CHOOSE i \in DOMAIN str : str[i] = "," /\ \A j \in 1..(i - 1) : str[j] # ",") - 1)

AfterComma(str) ==
  LET i    == CHOOSE n \in DOMAIN str : str[n] = "," /\ \A j \in 1..(n - 1) : str[j] # ","
      rest == SubSeq(str, i + 1, Len(str))
  IN  IF \E n \in DOMAIN rest : rest[n] = "," THEN BeforeComma(rest) ELSE rest

IsNumber(half) == Len(half) = 1 /\ half[1] \in {"18.65", " 83.3667"}

NumberOf(half) == IF half[1] = "18.65" THEN 186500 ELSE 833667

Ids(vs) == {vs[k].id : k \in DOMAIN vs}

\* C14: in every reachable state no two villages of the list have the same
\* id.
C14_UniqueIds ==
  \A i, j \in DOMAIN villages : villages[i].id = villages[j].id => i = j

\* A report created Kotha and a second report for Kotha, matched by name to
\* the id of the first, has been committed on the six-village list.
C14_Witness ==
  /\ LastCommitted
  /\ ~last[1].isNewVillage
  /\ last[1].villageId = "new-1"
  /\ Len(villages) = 6

\* C15: no step removes a village: every id of the list is still an id of the
\* list after the step.
C15_NeverDeleted == [][Ids(villages) \subseteq Ids(villages')]_vars

\* Two villages were created, a comment was added, and the five seed
\* villages are all still there.
C15_Witness ==
  /\ nCommits = 2
  /\ nComments > 0
  /\ Len(villages) = 7
  /\ {"v1", "v2", "v3", "v4", "v5"} \subseteq Ids(villages)

\* C16 (as claimed): every ingestion makes exactly one risk-oracle call and
\* exactly one setVillages call: whenever no ingestion is in flight, the
\* oracle calls and the commits both number the reports submitted.
C16_OneCallOneMutation ==
  pending = <<>> => (nOracleCalls = nReports /\ nCommits = nReports)

\* C17: a step of handleAddComment with a text that is not blank puts the new
\* comment at the head of the comments of the village with the given id,
\* keeps that village's earlier comments in their order behind it, changes no
\* other field of that village and no other village; with an id no village
\* has, every village is as before.
C17_CommentFrame ==
  [][\A id \in HandlerCommentIds, t \in CommentTexts :
       (Trim(t) # "" /\ handleAddComment(id, t)) =>
          /\ Len(villages') = Len(villages)
          /\ \A k \in DOMAIN villages :
               IF villages[k].id = id
               THEN /\ Len(villages'[k].comments) = Len(villages[k].comments) + 1
                    /\ Head(villages'[k].comments).text = t
                    /\ Head(villages'[k].comments) \notin Range(villages[k].comments)
                    /\ Tail(villages'[k].comments) = villages[k].comments
                    /\ [villages'[k] EXCEPT !.comments = villages[k].comments] = villages[k]
               ELSE villages'[k] = villages[k]
    ]_vars

\* Cheepurupalli had two comments and got a third, which is now the first.
C17_Witness ==
  /\ nComments > 0
  /\ Len(VillageOf("v3")[1].comments) = 3
  /\ Head(VillageOf("v3")[1].comments).text = "Send a team"
  /\ Tail(VillageOf("v3")[1].comments) = EarlierComments

\* C18 (as claimed): every ingestion that has started eventually commits its
\* village, with the oracle's analysis or the fallback, also when the risk
\* oracle never responds.
C18_IngestionCommits ==
  (pending # <<>>) ~> (pending = <<>> /\ LastCommitted)

\* C19 (as claimed): every detection pass that has started eventually returns
\* its cluster list, also when an advisory call never responds.
C19_PassEmits ==
  (passes # <<>>) ~> (passes = <<>>)

\* C20: the commit of an ingestion changes exactly one entry of the list.  For
\* an id the list has, the entry with that id is replaced where it stands by
\* the updated village, and the length, the order and every other entry stay;
\* for an id the list does not have, one entry is appended and the entries
\* before it stay.
C20_CommitChangesOneEntry ==
  [][nCommits' # nCommits =>
       LET id   == pending[1].report.villageId
           hits == {k \in DOMAIN villages : villages[k].id = id}
       IN  IF hits # {}
           THEN /\ Cardinality(hits) = 1
                /\ Len(villages') = Len(villages)
                /\ \A k \in DOMAIN villages :
                     IF k \in hits
                     THEN /\ villages'[k].id = id
                          /\ villages'[k] # villages[k]
                          /\ villages'[k].lastAnalysis # <<>>
                          /\ DOMAIN villages'[k] = DOMAIN villages[k]
                     ELSE villages'[k] = villages[k]
           ELSE /\ Len(villages') = Len(villages) + 1
                /\ SubSeq(villages', 1, Len(villages)) = villages
                /\ villages'[Len(villages')].id = id
    ]_vars

\* After Kotha was appended, an ingestion for Cheepurupalli committed and
\* Cheepurupalli is still the third of six.
C20_Witness ==
  /\ LastCommitted
  /\ last[1].villageId = "v3"
  /\ Len(villages) = 6
  /\ villages[3].id = "v3"
  /\ villages[6].id = "new-1"

\* The text of str before its first comma (all of it when it has none).
FirstToken(str) == IF IncludesComma(str) THEN BeforeComma(str) ELSE str

NoDuplicates(s) == \A i, j \in DOMAIN s : s[i] = s[j] => i = j

\* A committing step leaves the village with its prior symptoms, in their
\* order, followed by the first token of the report's symptoms unless it was
\* among them, and with nothing else; an empty first token counts as
\* "Unknown" when emptyIsUnknown.
SymptomsMerged(emptyIsUnknown) ==
  nCommits' # nCommits =>
    LET p     == pending[1]
        id    == p.report.villageId
        prior == IF VillageOf(id) # <<>> THEN VillageOf(id)[1].dominantSymptoms ELSE <<>>
        first == FirstToken(p.report.symptoms)
        added == IF first = <<>> /\ emptyIsUnknown THEN <<"Unknown">> ELSE first
        after == villages'[CHOOSE k \in DOMAIN villages' : villages'[k].id = id].dominantSymptoms
    IN  /\ Range(after) = Range(prior) \cup {added}
        /\ NoDuplicates(after)
        /\ SubSeq(after, 1, Len(prior)) = prior

\* C21 (as claimed): after an ingestion the village's dominantSymptoms is the
\* duplicate-free union of its prior dominantSymptoms with the first
\* comma-separated token of report.symptoms.
C21_FirstTokenUnion == [][SymptomsMerged(FALSE)]_vars

\* C21 (amended): the same, except that a first token that is empty is
\* replaced by "Unknown" before it is merged.
C21_FirstTokenOrUnknown == [][SymptomsMerged(TRUE)]_vars

\* A report ", Cough" and then a report "Fever, Cough" for Cheepurupalli have
\* committed: its three symptoms are followed by Unknown and Fever, and Cough
\* was never added.
C21_Witness ==
  /\ nCommits = 2
  /\ last[1].villageId = "v3"
  /\ last[1].affectedCount = 5
  /\ last[1].casesBefore = 46
  /\ VillageOf("v3")[1].dominantSymptoms =
       << <<"High Fever">>, <<"Vomiting">>, <<"Rash">>, <<"Unknown">>, <<"Fever">> >>

\* C22: after an ingestion has committed, the village's status is the
\* riskLevel of the analysis that was applied, the oracle's or the
\* fallback's Yellow, whatever the village's status was and whatever the
\* report's sanitationStatus is.
C22_StatusIsRiskLevel ==
  LastCommitted =>
    VillageOf(last[1].villageId)[1].status =
      IF last[1].oracle = "failed" THEN YELLOW ELSE last[1].oracle

\* A report with sanitation Worst for Cheepurupalli, which was Red, to which
\* the oracle answered Green: the village is Green.
C22_Witness ==
  /\ LastCommitted
  /\ last[1].villageId = "v3"
  /\ last[1].casesBefore = 45
  /\ last[1].sanitationStatus = "Worst"
  /\ last[1].oracle = GREEN
  /\ VillageOf("v3")[1].status = GREEN

\* A cluster but for its advice text.
Shape(c) == [c EXCEPT !.aiAdvice = ""]

\* The clusters, but for their advice texts, of a pass over the list vs.
ShapesOf(vs) ==
  [k \in DOMAIN Groups(vs) |-> Shape(Cluster(Groups(vs)[k], [threw |-> TRUE, text |-> ""]))]

\* The list without its Green villages.
WithoutGreen == SelectSeq(villages, LAMBDA v : v.status # GREEN)

\* C23: no Green village is a member of a cluster a pass pushes, and the list
\* a pass returns is, advice texts aside, the list a pass returns for the
\* village list with every Green village removed.
C23_GreenIgnored ==
  /\ \A c \in EmittedClusters : \A k \in DOMAIN c.villageIds :
        VillageOf(c.villageIds[k])[1].status # GREEN
  /\ DetectionDone =>
        [k \in DOMAIN clusters |-> Shape(clusters[k])] = ShapesOf(WithoutGreen)

\* The pass returned a cluster although a Green village lies within 15 km of
\* that cluster's anchor and stands before the anchor's neighbour in the
\* list.
C23_Witness ==
  /\ DetectionDone
  /\ \E c \in Range(clusters) : \E g, m \in DOMAIN villages :
        /\ villages[g].status = GREEN
        /\ villages[m].id = c.villageIds[2]
        /\ g < m
        /\ getDistance(villages[g].coordinates,
                       VillageOf(c.villageIds[1])[1].coordinates) <= 15000

\* The cluster lists there are: the stored one and the one each running pass
\* has pushed so far.
ClusterLists == {clusters} \cup {passes[k].out : k \in DOMAIN passes}

\* The place of an id in the filtered list of non-Green villages.
Place(id) == CHOOSE i \in DOMAIN WithoutGreen : WithoutGreen[i].id = id

\* C24: the clusters of a pass stand in the order in which their anchors
\* (their first members) occur in the filtered list of non-Green villages,
\* and the members of a cluster stand in list order, the anchor first.
C24_ListOrder ==
  \A cs \in ClusterLists :
     /\ \A a, b \in DOMAIN cs :
          a < b => Place(cs[a].villageIds[1]) < Place(cs[b].villageIds[1])
     /\ \A c \in Range(cs) : \A a, b \in DOMAIN c.villageIds :
          a < b => Place(c.villageIds[a]) < Place(c.villageIds[b])

\* Two clusters were returned, and the village that joined the first stands
\* after the village that joined the second in the list.
C24_Witness ==
  /\ DetectionDone
  /\ Len(clusters) = 2
  /\ Place(clusters[1].villageIds[2]) > Place(clusters[2].villageIds[2])

\* C25: the list of the first render is the stored list record by record: a
\* stored record without a comments field comes out with an empty comment
\* list and every stored field as it was, a record with a comment list comes
\* out as it was stored.
C25_MissingCommentsDefaulted ==
  (~mounted /\ saved # <<>>) =>
     /\ Len(villages) = Len(saved[1])
     /\ \A k \in DOMAIN villages :
          LET stored == saved[1][k]
              loaded == villages[k]
          IN  IF "comments" \in DOMAIN stored
              THEN loaded = stored
              ELSE /\ DOMAIN loaded = DOMAIN stored \cup {"comments"}
                   /\ loaded.comments = <<>>
                   /\ \A f \in DOMAIN stored : loaded[f] = stored[f]

\* A stored list in which Cheepurupalli has its two comments and Bobbili has
\* no comments field was loaded: Cheepurupalli kept both, Bobbili has none.
C25_Witness ==
  /\ ~mounted
  /\ saved # <<>>
  /\ \E k \in DOMAIN saved[1] :
        /\ saved[1][k].id = "v2"
        /\ "comments" \notin DOMAIN saved[1][k]
        /\ villages[k].comments = <<>>
        /\ villages[k].activeCases = 16
  /\ VillageOf("v3")[1].comments = EarlierComments

\* The sum of the latitudes, and of the longitudes, of the villages with the
\* given ids (in 1e-4 degrees).
RECURSIVE LatSumOf(_)
LatSumOf(ids) ==
  IF ids = <<>> THEN 0
  ELSE VillageOf(Head(ids))[1].coordinates.lat + LatSumOf(Tail(ids))

RECURSIVE LngSumOf(_)
LngSumOf(ids) ==
  IF ids = <<>> THEN 0
  ELSE VillageOf(Head(ids))[1].coordinates.lng + LngSumOf(Tail(ids))

\* C26: for every cluster pushed, center.lat is the sum of its members'
\* latitudes divided by their number, center.lng the sum of their longitudes
\* divided by their number, and radius is 7500.  A quotient p / q is the
\* pair <<p, q>>, and <<p, q>> is s / n when p * n = s * q.
C26_CenterIsMean ==
  \A c \in EmittedClusters :
     LET n == Len(c.villageIds)
     IN  /\ c.center.lat[2] > 0 /\ c.center.lng[2] > 0
         /\ c.center.lat[1] * n = LatSumOf(c.villageIds) * c.center.lat[2]
         /\ c.center.lng[1] * n = LngSumOf(c.villageIds) * c.center.lng[2]
         /\ c.radius = 7500

\* A cluster of Bobbili and two villages at 18.65, 83.3667: its centre's
\* latitude is (18.5667 + 18.65 + 18.65) / 3.
C26_Witness ==
  \E c \in Range(clusters) :
     /\ Len(c.villageIds) = 3
     /\ c.villageIds[1] = "v2"
     /\ c.center.lat = <<185667 + 186500 + 186500, 3>>
     /\ c.center.lng = <<833667 * 3, 3>>
     /\ c.radius = 7500

\* C27: in the cluster list of one pass every village id occurs at most once:
\* in at most one cluster, and once within it.
C27_ClustersDisjoint ==
  \A cs \in ClusterLists :
     \A a, b \in DOMAIN cs : \A i \in DOMAIN cs[a].villageIds, j \in DOMAIN cs[b].villageIds :
        cs[a].villageIds[i] = cs[b].villageIds[j] => (a = b /\ i = j)

\* The pass returned a cluster one of whose joined members has a later
\* non-Green village within 15 km of it that is outside that cluster: as an
\* anchor the member would have taken that village.
C27_Witness ==
  /\ DetectionDone
  /\ \E x \in Range(clusters) : \E k \in 2..Len(x.villageIds) : \E j \in DOMAIN U :
        /\ j > UIndex(x.villageIds[k])
        /\ Near(UIndex(x.villageIds[k]), j)
        /\ U[j].id \notin Range(x.villageIds)

\* C28: in every reachable state a village that has a lastAnalysis has the
\* status that analysis gives as riskLevel.
C28_StatusMatchesCache ==
  \A k \in DOMAIN villages :
     villages[k].lastAnalysis # <<>> =>
        villages[k].status = villages[k].lastAnalysis[1].riskLevel

\* Cheepurupalli got an analysis that is not Red, then a comment, and then
\* an ingestion for Kotha committed.
C28_Witness ==
  /\ LastCommitted
  /\ last[1].villageId = "new-2"
  /\ VillageOf("v3")[1].lastAnalysis # <<>>
  /\ VillageOf("v3")[1].lastAnalysis[1].riskLevel # RED
  /\ VillageOf("v3")[1].comments # <<>>

\* What two passes over one list must agree on: everything but the advice
\* text and the generated id.
Geometry(c) ==
  [villageIds |-> c.villageIds, center |-> c.center, radius |-> c.radius,
   severity |-> c.severity]

\* The geometry of the first n clusters of the pass over the current list in
\* which every advisory call returns a text.
Reference(n) ==
  [k \in 1..n |-> Geometry(Cluster(Groups(villages)[k],
                                    [threw |-> FALSE, text |-> "Deploy mobile clinics."]))]

\* C29: whatever the advisory calls of a pass did (returned a text, returned
\* an empty text, failed), the clusters the pass has pushed agree in
\* villageIds, center, radius, severity and order with those of the pass in
\* which every call returned a text; so any two passes over the list agree.
C29_GroupingIgnoresAdvice ==
  \A cs \in ClusterLists :
     /\ Len(cs) <= Len(Groups(villages))
     /\ [k \in DOMAIN cs |-> Geometry(cs[k])] = Reference(Len(cs))
     /\ (DetectionDone /\ cs = clusters) => Len(cs) = Len(Groups(villages))

\* A pass returned two clusters, the first with the oracle's text and the
\* second, a Red one, with the default text.
C29_Witness ==
  /\ DetectionDone
  /\ Len(clusters) = 2
  /\ clusters[1].aiAdvice = "Deploy mobile clinics."
  /\ clusters[2].aiAdvice = FallbackAdvice
  /\ clusters[2].severity = RED

\* The fields of a village that an ingestion writes.
IngestionFields(v) ==
  [ activeCases |-> v.activeCases, status |-> v.status,
    lastAshaWorker |-> v.lastAshaWorker, dominantSymptoms |-> v.dominantSymptoms,
    lastAnalysis |-> v.lastAnalysis ]

\* C30: at most one ingestion is suspended at its await after any step;
\* isAnalyzing is true as long as one is; a report is submitted only while
\* isAnalyzing is false; and the village value an ingestion commits was built
\* from the village as the latest committed ingestion left it: what the
\* ingestion read before its await is, in every field an ingestion writes,
\* what the list holds at the commit (for a new village, the list still has
\* no such id).
C30_OneIngestionInFlight ==
  [][/\ Len(pending') <= 1
     /\ pending' # <<>> => isAnalyzing'
     /\ nReports' # nReports => ~isAnalyzing
     /\ nCommits' # nCommits =>
          \E n \in DOMAIN pending :
             /\ pending' = SubSeq(pending, 1, n - 1) \o SubSeq(pending, n + 1, Len(pending))
             /\ LET p   == pending[n]
                    cur == VillageOf(p.report.villageId)
                IN  IF cur = <<>> THEN p.isNewVillage
                    ELSE /\ ~p.isNewVillage
                         /\ IngestionFields(p.village) = IngestionFields(cur[1])
    ]_vars

\* Two ingestions for Cheepurupalli have committed one after the other and
\* none is in flight.
C30_Witness ==
  /\ nCommits = 2
  /\ pending = <<>>
  /\ ~isAnalyzing
  /\ last[1].villageId = "v3"
  /\ last[1].casesBefore > 45

====
